---------------------------- MODULE Spec2Model ----------------------------
(***************************************************************************)
(* DAO replay mitigation (dao-replay-mitigation.cc): the sensors           *)
(* (DaoSenderApp), the compromised sensor 0 (DaoAttackerApp) and the root  *)
(* (DaoRootReceiverApp) with its freshness check and its metrics, driven   *)
(* by the simulator's event queue.                                         *)
(*                                                                         *)
(* Time is counted in ticks of one millisecond (TicksPerSecond ticks to    *)
(* the second); ns-3 counts nanoseconds. Every time of the program         *)
(* (periods, delays, the threshold) is a whole number of milliseconds.     *)
(* The nanosecond field of a payload therefore carries ticks.              *)
(* Sequence numbers and counters are uint32_t in the program; the runs     *)
(* modelled stay far below 2^32, so none of them wraps here.               *)
(* A byte string is a sequence of one-character strings.                   *)
(***************************************************************************)
EXTENDS Integers, Sequences, FiniteSets, TLC

VARIABLES
  now,              \* Simulator::Now(), in ticks
  events,           \* the simulator's pending events
  nextUid,          \* the uid the next scheduled event gets
  stopped,          \* Simulator::Stop() has run
  nSensors,         \* main: nSensors
  enableAttacker,   \* main: enableAttacker
  m_seq,            \* DaoSenderApp::m_seq, per sensor
  m_interval,       \* DaoSenderApp::m_interval, per sensor
  m_sendEvent,      \* DaoSenderApp::m_sendEvent, per sensor (uid, 0: none)
  senderSocket,     \* DaoSenderApp::m_socket, per sensor
  m_payload,        \* DaoAttackerApp::m_payload
  m_replayCount,    \* DaoAttackerApp::m_replayCount
  m_remaining,      \* DaoAttackerApp::m_remaining
  m_gap,            \* DaoAttackerApp::m_gap
  m_replayEvent,    \* DaoAttackerApp::m_replayEvent (uid, 0: none)
  attackerSocket,   \* DaoAttackerApp::m_socket
  rootSocket,       \* DaoRootReceiverApp::m_socket
  m_thresh,         \* DaoRootReceiverApp::m_thresh
  m_totalDaos,      \* DaoRootReceiverApp::m_totalDaos
  m_acceptedDaos,   \* DaoRootReceiverApp::m_acceptedDaos
  m_rejectedDaos,   \* DaoRootReceiverApp::m_rejectedDaos
  m_prevArrival,    \* DaoRootReceiverApp::m_prevArrival
  m_interArrivals,  \* DaoRootReceiverApp::m_interArrivals
  m_lastSeq,        \* DaoRootReceiverApp::m_lastSeq
  m_lastOrig,       \* DaoRootReceiverApp::m_lastOrig
  m_lastArrival,    \* DaoRootReceiverApp::m_lastArrival
  arrivals,         \* history: messages handed to HandleRead so far
  last,             \* history: the last message HandleRead took, and its verdict
  acceptedLog,      \* history: the <<identity, seq, origTs>> accepted so far
  trace,            \* history: what was emitted, replayed, heard and decoded so far
  logWarn,          \* whether NS_LOG_WARN evaluates its message in this build and run
  codec             \* a DaoPayload, its SerializeDao string and what DeserializeDao gives

simVars      == <<now, events, nextUid, stopped, nSensors, enableAttacker>>
senderVars   == <<m_seq, m_interval, m_sendEvent, senderSocket>>
attackerVars == <<m_payload, m_replayCount, m_remaining, m_gap, m_replayEvent,
                  attackerSocket>>
metricVars   == <<m_totalDaos, m_acceptedDaos, m_rejectedDaos, m_prevArrival,
                  m_interArrivals>>
freshVars    == <<m_lastSeq, m_lastOrig, m_lastArrival>>
rootVars     == <<rootSocket, m_thresh, metricVars, freshVars>>
histVars     == <<arrivals, last, acceptedLog>>
vars == <<simVars, senderVars, attackerVars, rootVars, histVars, trace, codec, logWarn>>

-----------------------------------------------------------------------------
(* Time *)

TicksPerSecond == 1000

\* ns3::Seconds(v) and ns3::NanoSeconds(v) as used at CheckFresh's first line
Seconds(v) == v * TicksPerSecond
NanoSeconds(v) == v

\* (uint64_t) Time::GetSeconds(): the whole seconds of t
GetSeconds(t) == t \div TicksPerSecond
\* Time::GetNanoSeconds(): all of t in the clock's unit, not the sub-second part
GetNanoSeconds(t) == t

-----------------------------------------------------------------------------
(* Payload helpers *)

DigitChars == <<"0", "1", "2", "3", "4", "5", "6", "7", "8", "9">>

IsDigit(c) == \E d \in 1..10 : DigitChars[d] = c
DigitValue_OneBased(c) == CHOOSE d \in 1..10 : DigitChars[d] = c
DigitValue(c) == (CHOOSE d \in 1..10 : DigitChars[d] = c) - 1

\* operator<< of an unsigned integer: its decimal digits
RECURSIVE ToDecimal(_)
ToDecimal(n) ==
  IF n < 10 THEN <<DigitChars[n + 1]>>
  ELSE Append(ToDecimal(n \div 10), DigitChars[(n % 10) + 1])

SerializeDao(p) ==
  <<"D", "A", "O", ":">> \o ToDecimal(p.seq) \o <<":">> \o ToDecimal(p.tsSeconds)
    \o <<":">> \o ToDecimal(p.tsNano)

\* The input stream of DeserializeDao: the characters left and the eofbit.
IStream(s) == [rest |-> s, eof |-> FALSE]

\* std::getline(iss, field, ':'): fails on a stream at eof and when it extracts
\* nothing; the delimiter is extracted and dropped; running into the end sets eofbit.
GetLine(st) ==
  IF st.eof THEN [ok |-> FALSE, field |-> <<>>, st |-> st]
  ELSE IF \E k \in 1..Len(st.rest) : st.rest[k] = ":"
    THEN LET k == CHOOSE i \in 1..Len(st.rest) :
                    /\ st.rest[i] = ":"
                    /\ \A j \in 1..(i - 1) : st.rest[j] # ":"
         IN [ok |-> TRUE, field |-> SubSeq(st.rest, 1, k - 1),
             st |-> [rest |-> SubSeq(st.rest, k + 1, Len(st.rest)), eof |-> FALSE]]
    ELSE [ok |-> Len(st.rest) > 0, field |-> st.rest,
          st |-> [rest |-> <<>>, eof |-> TRUE]]

\* Leading white space that std::stoul / std::stoull skip
RECURSIVE SkipSpace(_)
SkipSpace(s) == IF Len(s) > 0 /\ Head(s) = " " THEN SkipSpace(Tail(s)) ELSE s

\* The longest prefix of digits
RECURSIVE DigitPrefix(_)
DigitPrefix(s) ==
  IF Len(s) > 0 /\ IsDigit(Head(s)) THEN <<Head(s)>> \o DigitPrefix(Tail(s)) ELSE <<>>

RECURSIVE DecimalValue(_)
DecimalValue(ds) ==
  IF Len(ds) = 0 THEN 0
  ELSE 10 * DecimalValue(SubSeq(ds, 1, Len(ds) - 1)) + DigitValue(ds[Len(ds)])

\* std::stoul / std::stoull, base 10: white space, an optional "+", then at least
\* one digit, and the rest of the string is ignored; no digit throws (ok = FALSE).
\* (A "-" sign and values past the type's range are outside the inputs modelled.)
Stoul(s) ==
  LET t == SkipSpace(s)
      u == IF Len(t) > 0 /\ Head(t) = "+" THEN Tail(t) ELSE t
      ds == DigitPrefix(u)
  IN [ok |-> Len(ds) > 0, val |-> DecimalValue(ds)]

NoPayload == [seq |-> 0, tsSeconds |-> 0, tsNano |-> 0]

DeserializeDao(s) ==
  LET g1 == GetLine(IStream(s))
      g2 == GetLine(g1.st)
      g3 == GetLine(g2.st)
      g4 == GetLine(g3.st)
      fail == [ok |-> FALSE, p |-> NoPayload]
  IN IF ~g1.ok \/ g1.field # <<"D", "A", "O">> THEN fail
     ELSE IF ~g2.ok \/ ~g3.ok \/ ~g4.ok THEN fail
     ELSE LET seqs == Stoul(g2.field)
              secs == Stoul(g3.field)
              nanos == Stoul(g4.field)
          IN IF ~seqs.ok \/ ~secs.ok \/ ~nanos.ok THEN fail
             ELSE [ok |-> TRUE,
                   p |-> [seq |-> seqs.val, tsSeconds |-> secs.val, tsNano |-> nanos.val]]



\* A codec call: a DaoPayload p, then s = SerializeDao(p), then DeserializeDao(s, out)
NoCodec == [stage |-> "none", p |-> NoPayload, s |-> <<>>, ok |-> FALSE, out |-> NoPayload]

\* Field values of one to ten decimal digits, with zeros inside and at the end
CodecValues == {0, 7, 10, 1000, 2147483647}

CodecInputs ==
  {[seq |-> q, tsSeconds |-> sec, tsNano |-> nano] :
     q \in CodecValues, sec \in CodecValues, nano \in CodecValues}

Serialize ==
  /\ codec.stage = "payload"
  /\ codec' = [codec EXCEPT !.stage = "string", !.s = SerializeDao(codec.p)]

Deserialize ==
  /\ codec.stage = "string"
  /\ \E d \in {DeserializeDao(codec.s)} :
       codec' = [codec EXCEPT !.stage = "decoded", !.ok = d.ok, !.out = d.p]

-----------------------------------------------------------------------------
(* DaoRootReceiverApp *)

\* main: rootApp->Setup(..., Seconds(0.2)), in ticks
DefaultThreshold == 200

\* std::map: the map m with key k set to v, and an empty map
MapPut_Clobber(m, k, v) == (k :> v)
MapPut(m, k, v) == (k :> v) @@ m
EmptyMap == [k \in {} |-> 0]

\* The comparisons of CheckFresh, in the order the code makes them. Before each
\* stand faulty variants of it (a dropped test, an inclusive bound), which the
\* properties at the end of the module tell from the code's comparison.
SeqIsOld_Never(seq, lastSeq) == FALSE
SeqIsOld(seq, lastSeq) == seq < lastSeq

SeqIsSame(seq, lastSeq) == seq = lastSeq

OrigIsSame_Never(origTs, lastOrig) == FALSE
OrigIsSame(origTs, lastOrig) == origTs = lastOrig

ArrivalTooFast_Inclusive(arrivalTime, lastArrival) ==
  arrivalTime - lastArrival <= m_thresh
ArrivalTooFast(arrivalTime, lastArrival) == arrivalTime - lastArrival < m_thresh

OrigIsOld_Never(origTs, lastOrig) == FALSE
OrigIsOld_Inclusive(origTs, lastOrig) == origTs <= lastOrig
OrigIsOld(origTs, lastOrig) == origTs < lastOrig

\* Time origTs = Seconds(p.tsSeconds) + NanoSeconds(p.tsNano)
OrigTsOf_SecondsOnly(p) == Seconds(p.tsSeconds)
OrigTsOf(p) == Seconds(p.tsSeconds) + NanoSeconds(p.tsNano)

\* The verdict of CheckFresh and the three maps it leaves.
CheckFresh(sender, p, arrivalTime) ==
  LET origTs == OrigTsOf(p)
      reject == [accept |-> FALSE, lastSeq |-> m_lastSeq, lastOrig |-> m_lastOrig,
                 lastArrival |-> m_lastArrival]
      accept == [accept |-> TRUE,
                 lastSeq |-> MapPut(m_lastSeq, sender, p.seq),
                 lastOrig |-> MapPut(m_lastOrig, sender, origTs),
                 lastArrival |-> MapPut(m_lastArrival, sender, arrivalTime)]
  IN IF sender \in DOMAIN m_lastSeq
       THEN LET lastSeq == m_lastSeq[sender]
                lastOrig == m_lastOrig[sender]
                lastArrival == m_lastArrival[sender]
            IN IF SeqIsOld(p.seq, lastSeq) THEN reject
               ELSE IF SeqIsSame(p.seq, lastSeq) /\ OrigIsSame(origTs, lastOrig) THEN reject
               ELSE IF SeqIsSame(p.seq, lastSeq) /\ ArrivalTooFast(arrivalTime, lastArrival)
                 THEN reject
               ELSE IF OrigIsOld(origTs, lastOrig) THEN reject
               ELSE accept
       ELSE accept

\* if (accept) ++m_acceptedDaos; else ++m_rejectedDaos;
Tally_RejectUncounted(accept) ==
  [accepted |-> IF accept THEN m_acceptedDaos + 1 ELSE m_acceptedDaos,
   rejected |-> m_rejectedDaos]
Tally(accept) ==
  [accepted |-> IF accept THEN m_acceptedDaos + 1 ELSE m_acceptedDaos,
   rejected |-> IF accept THEN m_rejectedDaos ELSE m_rejectedDaos + 1]

\* if (!DeserializeDao(data, p)) { ...; continue; }
DecodeFailed_Ignored(d) == FALSE
DecodeFailed(d) == ~d.ok

\* double delta = (now - m_prevArrival[sender]).GetSeconds(), in ticks
Delta_Reversed(t, prev) == prev - t
Delta(t, prev) == t - prev

\* What the history keeps of one message: the input, the identity's freshness
\* state before the evaluation, whether this identity's <<seq, origTs>> was accepted
\* before, and the verdict.
NoRead ==
  [from |-> 0, data |-> <<>>, at |-> 0, origin |-> "none", ok |-> FALSE,
   seq |-> 0, origTs |-> 0, had |-> FALSE, preSeq |-> 0, preOrig |-> 0,
   preArrival |-> 0, replay |-> FALSE, accept |-> FALSE]

\* One round of HandleRead's loop: the message data from identity `from`, taken at
\* time t. ns-3 calls HandleRead once per arriving message, so the loop runs once.
HandleRead(from, data, origin, t) ==
  LET had == from \in DOMAIN m_lastSeq
      seen == [NoRead EXCEPT !.from = from, !.data = data, !.at = t, !.origin = origin]
  IN \E d \in {DeserializeDao(data)} :
     /\ arrivals' = arrivals + 1
     /\ UNCHANGED <<rootSocket, m_thresh>>
     /\ UNCHANGED <<codec, logWarn>>
     /\ IF DecodeFailed(d)
          THEN /\ UNCHANGED <<metricVars, freshVars, acceptedLog, trace>>
               /\ last' = seen
          ELSE \E r \in {CheckFresh(from, d.p, t)} :
                  /\ m_totalDaos' = m_totalDaos + 1
                  /\ m_interArrivals' =
                       IF from \in DOMAIN m_prevArrival
                         THEN MapPut(m_interArrivals, from,
                                Append(IF from \in DOMAIN m_interArrivals
                                         THEN m_interArrivals[from] ELSE <<>>,
                                       Delta(t, m_prevArrival[from])))
                         ELSE m_interArrivals
                  /\ m_prevArrival' = MapPut(m_prevArrival, from, t)
                  /\ m_lastSeq' = r.lastSeq
                  /\ m_lastOrig' = r.lastOrig
                  /\ m_lastArrival' = r.lastArrival
                  /\ m_acceptedDaos' = Tally(r.accept).accepted
                  /\ m_rejectedDaos' = Tally(r.accept).rejected
                  /\ last' = [seen EXCEPT !.ok = TRUE, !.seq = d.p.seq,
                                !.origTs = OrigTsOf(d.p), !.had = had,
                                !.preSeq = IF had THEN m_lastSeq[from] ELSE 0,
                                !.preOrig = IF had THEN m_lastOrig[from] ELSE 0,
                                !.preArrival = IF had THEN m_lastArrival[from] ELSE 0,
                                !.replay =
                                  <<from, d.p.seq, OrigTsOf(d.p)>> \in acceptedLog,
                                !.accept = r.accept]
                  /\ acceptedLog' =
                       IF r.accept THEN acceptedLog \cup {<<from, d.p.seq, OrigTsOf(d.p)>>}
                       ELSE acceptedLog
                  /\ trace' =
                       [trace EXCEPT !.decodedAt =
                          MapPut(@, from, Append(IF from \in DOMAIN @ THEN @[from] ELSE <<>>,
                                                 t))]

\* The history of the applications: the emissions of each sensor, the replays
\* sent, the messages Capture was called for and the first of them, and the
\* arrival times of the decodable messages of each identity.
NoTrace(sensors) ==
  [emitted |-> [i \in sensors |-> 0], replayed |-> 0, heard |-> 0, first |-> <<>>,
   decodedAt |-> EmptyMap]

\* The root as constructed, set up by main and started: nothing received.
RootInit ==
  /\ m_thresh = DefaultThreshold
  /\ m_totalDaos = 0 /\ m_acceptedDaos = 0 /\ m_rejectedDaos = 0
  /\ m_prevArrival = EmptyMap /\ m_interArrivals = EmptyMap
  /\ m_lastSeq = EmptyMap /\ m_lastOrig = EmptyMap /\ m_lastArrival = EmptyMap
  /\ arrivals = 0 /\ last = NoRead /\ acceptedLog = {}

-----------------------------------------------------------------------------
(* The root alone, fed by an arbitrary network: any identity may deliver any  *)
(* message, well-formed or not, at any time that does not run backwards.      *)

MaxArrivals == 3
MaxSeq == 2

Identities == {0, 1}
SeqInputs == 1..MaxSeq
\* <<tsSeconds, tsNano>>: the first two are one origin time written two ways
OrigInputs == {<<0, TicksPerSecond>>, <<1, 0>>, <<1, TicksPerSecond>>}
PayloadInputs ==
  {[seq |-> s, tsSeconds |-> o[1], tsNano |-> o[2]] : s \in SeqInputs, o \in OrigInputs}
MalformedInputs ==
  {<<"D", "A", "O", ":", "1", ":", "2">>, <<"D", "A", "O", ":", "x", ":", "1", ":", "1">>}
WireInputs == {SerializeDao(p) : p \in PayloadInputs} \cup MalformedInputs
\* the time since the previous arrival: under the threshold, and the threshold
GapInputs == {DefaultThreshold \div 2, DefaultThreshold}

Idle ==
  /\ events = {} /\ nextUid = 1 /\ stopped = FALSE
  /\ nSensors = 0 /\ enableAttacker = FALSE
  /\ m_seq = EmptyMap /\ m_interval = EmptyMap /\ m_sendEvent = EmptyMap
  /\ senderSocket = EmptyMap
  /\ m_payload = <<>> /\ m_replayCount = 0 /\ m_remaining = 0 /\ m_gap = 0
  /\ m_replayEvent = 0 /\ attackerSocket = "none"
  /\ trace = NoTrace({})
  /\ logWarn = FALSE

Init ==
  /\ now = 0
  /\ Idle
  /\ RootInit
  /\ rootSocket = "bound"
  /\ codec = NoCodec

Arrive ==
  /\ arrivals < MaxArrivals
  /\ \E id \in Identities, data \in WireInputs, gap \in GapInputs :
       /\ now' = now + gap
       /\ HandleRead(id, data, "network", now + gap)
  /\ UNCHANGED <<events, nextUid, stopped, nSensors, enableAttacker>>
  /\ UNCHANGED <<senderVars, attackerVars>>

Next == Arrive

Spec == Init /\ [][Next]_vars

\* The codec on its own: a payload drawn from CodecInputs is serialized, then
\* the string is deserialized; no application runs.
InitCodec ==
  /\ now = 0
  /\ Idle
  /\ RootInit
  /\ rootSocket = "none"
  /\ \E p \in CodecInputs : codec = [NoCodec EXCEPT !.stage = "payload", !.p = p]

NextCodec ==
  /\ Serialize \/ Deserialize
  /\ UNCHANGED <<simVars, senderVars, attackerVars, rootVars, histVars, trace, logWarn>>

SpecCodec == InitCodec /\ [][NextCodec]_vars


-----------------------------------------------------------------------------
(* The simulator: pending events run in the order of their time, and of    *)
(* their uid (the order they were scheduled in) at one time.               *)

Event(ts, uid, kind, node) ==
  [ts |-> ts, uid |-> uid, kind |-> kind, node |-> node,
   from |-> 0, data |-> <<>>, origin |-> "none"]

\* a message from identity `from`, reaching `node`'s socket at time ts
Delivery(ts, uid, kind, node, from, data, origin) ==
  [ts |-> ts, uid |-> uid, kind |-> kind, node |-> node,
   from |-> from, data |-> data, origin |-> origin]

IsNextEvent(e) ==
  /\ ~stopped
  /\ e \in events
  /\ \A f \in events : e.ts < f.ts \/ (e.ts = f.ts /\ e.uid <= f.uid)

\* main's values, times in ticks
DefaultNSensors == 3
SimTime == 25000
LinkDelay == 5
RootStartTime == 500
SenderStartTime == 2000
AttackerStartTime == 3000
FirstSeq == 1
SeqStride == 100
BaseInterval == 10000
DefaultReplayCount == 100
DefaultGap == 10
AttackerNode == 0
\* main: root = nodes.Get(nSensors)
RootNodeOf(n) == n

\* DaoSenderApp::StartApplication: Seconds(1.0 + (double)rand() / RAND_MAX)
StartOffset == 1000
JitterInputs == {0, 840, TicksPerSecond}
\* DaoAttackerApp::Capture: Seconds(0.05)
CaptureDelay == 50

Sensors == 0..(nSensors - 1)
\* main: only sensor 0 is given a mirror address (its own, the attacker's port)
HasMirror(i) == i = 0

\* NS_LOG_WARN evaluates its message only in a build with logging compiled in
\* and a run with the component enabled at that level (main enables none, the
\* NS_LOG environment variable can).
LogInputs == BOOLEAN

\* main, up to Simulator::Run(), for the values main passes to Setup, SetStopTime
\* and Simulator::Stop: n sensors, the attacker if withAttacker, count replays,
\* the applications' stop times; `network` holds what else the network brings
\* to the attacker's port. Simulator::Stop is scheduled by main; each
\* application's start and stop are scheduled when its node initialises, node
\* after node.
SetupInit(n, withAttacker, count, simTime, senderStop, attackerStop, network) ==
  /\ now = 0
  /\ logWarn \in (IF withAttacker THEN LogInputs ELSE {FALSE})
  /\ stopped = FALSE
  /\ nSensors = n
  /\ enableAttacker = withAttacker
  /\ events =
       {Event(simTime, 1, "SimStop", RootNodeOf(n))}
       \cup {Event(SenderStartTime + i * TicksPerSecond, 2 + 4 * i, "SenderStart", i) :
               i \in 0..(n - 1)}
       \cup {Event(senderStop, 3 + 4 * i, "SenderStop", i) : i \in 0..(n - 1)}
       \cup (IF withAttacker
               THEN {Event(AttackerStartTime, 4, "AttackerStart", AttackerNode),
                     Event(attackerStop, 5, "AttackerStop", AttackerNode)}
               ELSE {})
       \cup {Event(RootStartTime, 2 + 4 * n, "RootStart", RootNodeOf(n)),
             Event(simTime, 3 + 4 * n, "RootStop", RootNodeOf(n))}
       \cup network
  /\ nextUid = 4 + 4 * n + Cardinality(network)
  /\ m_seq = [i \in 0..(n - 1) |-> FirstSeq + i * SeqStride]
  /\ m_interval = [i \in 0..(n - 1) |-> BaseInterval + i * TicksPerSecond]
  /\ m_sendEvent = [i \in 0..(n - 1) |-> 0]
  /\ senderSocket = [i \in 0..(n - 1) |-> "none"]
  /\ m_payload = <<>>
  /\ m_replayCount = count
  /\ m_remaining = 0
  /\ m_gap = DefaultGap
  /\ m_replayEvent = 0
  /\ attackerSocket = "none"
  /\ rootSocket = "none"
  /\ RootInit
  /\ trace = NoTrace(0..(n - 1))
  /\ codec = NoCodec

\* main as written: 100 replays, every application stops at simTime = 25 s,
\* only sensor 0 sends to the attacker's port.
MainInit(n, withAttacker) ==
  SetupInit(n, withAttacker, DefaultReplayCount, SimTime, SimTime, SimTime, {})

-----------------------------------------------------------------------------
(* DaoSenderApp *)

SenderStart ==
  \E e \in events :
    /\ IsNextEvent(e) /\ e.kind = "SenderStart"
    /\ now' = e.ts
    /\ \E jitter \in JitterInputs :
         events' = (events \ {e})
                     \cup {Event(e.ts + StartOffset + jitter, nextUid, "SendDao", e.node)}
    /\ m_sendEvent' = [m_sendEvent EXCEPT ![e.node] = nextUid]
    /\ senderSocket' = [senderSocket EXCEPT ![e.node] = "open"]
    /\ nextUid' = nextUid + 1
    /\ UNCHANGED <<stopped, nSensors, enableAttacker, m_seq, m_interval>>
    /\ UNCHANGED <<attackerVars, rootVars, histVars, codec, logWarn, trace>>

\* the payload SendDao builds at time t from sequence number seq
DaoAt(seq, t) == [seq |-> seq, tsSeconds |-> GetSeconds(t), tsNano |-> GetNanoSeconds(t)]

\* p.seq = m_seq++
NextSeq_Decrement(seq) == seq - 1
NextSeq(seq) == seq + 1

SendDao ==
  \E e \in events :
    /\ IsNextEvent(e) /\ e.kind = "SendDao"
    /\ now' = e.ts
    /\ LET i == e.node
           payload == SerializeDao(DaoAt(m_seq[i], e.ts))
           sends == senderSocket[i] = "open"
       IN /\ m_seq' = [m_seq EXCEPT ![i] = NextSeq(@)]
          /\ events' =
               (events \ {e})
               \cup (IF sends
                       THEN {Delivery(e.ts + LinkDelay, nextUid, "RootRecv", RootNodeOf(nSensors),
                                      i, payload, "sender")}
                       ELSE {})
               \cup (IF sends /\ HasMirror(i)
                       THEN {Delivery(e.ts, nextUid + 1, "MirrorRecv", i,
                                      i, payload, "sender")}
                       ELSE {})
               \cup {Event(e.ts + m_interval[i], nextUid + 2, "SendDao", i)}
          /\ m_sendEvent' = [m_sendEvent EXCEPT ![i] = nextUid + 2]
          /\ nextUid' = nextUid + 3
          /\ trace' = [trace EXCEPT !.emitted[i] = @ + 1]
    /\ UNCHANGED <<stopped, nSensors, enableAttacker, m_interval, senderSocket>>
    /\ UNCHANGED <<attackerVars, rootVars, histVars, codec, logWarn>>

\* StopApplication: the pending SendDao is cancelled, the socket closed.
SenderStop ==
  \E e \in events :
    /\ IsNextEvent(e) /\ e.kind = "SenderStop"
    /\ now' = e.ts
    /\ events' = {f \in events \ {e} : ~(f.kind = "SendDao" /\ f.uid = m_sendEvent[e.node])}
    /\ senderSocket' = [senderSocket EXCEPT ![e.node] = IF @ = "none" THEN @ ELSE "closed"]
    /\ UNCHANGED <<nextUid, stopped, nSensors, enableAttacker, m_seq, m_interval,
                   m_sendEvent>>
    /\ UNCHANGED <<attackerVars, rootVars, histVars, codec, logWarn, trace>>

-----------------------------------------------------------------------------
(* DaoAttackerApp *)

AttackerStart ==
  \E e \in events :
    /\ IsNextEvent(e) /\ e.kind = "AttackerStart"
    /\ now' = e.ts
    /\ events' = events \ {e}
    /\ attackerSocket' = "bound"
    /\ UNCHANGED <<nextUid, stopped, nSensors, enableAttacker>>
    /\ UNCHANGED <<m_payload, m_replayCount, m_remaining, m_gap, m_replayEvent>>
    /\ UNCHANGED <<senderVars, rootVars, histVars, codec, logWarn, trace>>

\* A message reaches the mirror port: Capture runs if the attacker's socket is
\* bound there, and the message is lost if no socket is.
Capture ==
  \E e \in events :
    /\ IsNextEvent(e) /\ e.kind = "MirrorRecv"
    /\ now' = e.ts
    /\ trace' = IF attackerSocket = "bound"
                  THEN [trace EXCEPT !.heard = @ + 1,
                                     !.first = IF trace.heard = 0 THEN e.data ELSE @]
                  ELSE trace
    /\ IF attackerSocket = "bound" /\ m_payload = <<>>
         THEN /\ m_payload' = e.data
              /\ m_remaining' = m_replayCount
              /\ events' = (events \ {e})
                             \cup {Event(e.ts + CaptureDelay, nextUid, "ReplayOnce",
                                         AttackerNode)}
              /\ m_replayEvent' = nextUid
              /\ nextUid' = nextUid + 1
         ELSE /\ events' = events \ {e}
              /\ UNCHANGED <<m_payload, m_remaining, m_replayEvent, nextUid>>
    /\ UNCHANGED <<stopped, nSensors, enableAttacker, m_replayCount, m_gap,
                   attackerSocket>>
    /\ UNCHANGED <<senderVars, rootVars, histVars, codec, logWarn>>

\* NS_LOG_WARN("... remaining=" << --m_remaining): the decrement is part of the
\* log message, so it happens only where the message is evaluated.
Remaining(remaining, logged) == IF logged THEN remaining - 1 ELSE remaining

ReplayOnce ==
  \E e \in events :
    /\ IsNextEvent(e) /\ e.kind = "ReplayOnce"
    /\ now' = e.ts
    /\ IF m_remaining = 0
         THEN /\ events' = events \ {e}
              /\ UNCHANGED <<m_remaining, m_replayEvent, nextUid, trace>>
         ELSE /\ m_remaining' = Remaining(m_remaining, logWarn)
              /\ trace' = [trace EXCEPT !.replayed = @ + 1]
              /\ events' =
                   (events \ {e})
                   \cup {Delivery(e.ts + LinkDelay, nextUid, "RootRecv", RootNodeOf(nSensors),
                                  AttackerNode, m_payload, "attacker")}
                   \cup (IF Remaining(m_remaining, logWarn) > 0
                           THEN {Event(e.ts + m_gap, nextUid + 1, "ReplayOnce",
                                       AttackerNode)}
                           ELSE {})
              /\ m_replayEvent' = IF Remaining(m_remaining, logWarn) > 0
                                    THEN nextUid + 1 ELSE m_replayEvent
              /\ nextUid' = nextUid + 2
    /\ UNCHANGED <<stopped, nSensors, enableAttacker, m_payload, m_replayCount, m_gap,
                   attackerSocket>>
    /\ UNCHANGED <<senderVars, rootVars, histVars, codec, logWarn>>

\* StopApplication: the listening socket is closed, then the replay that
\* m_replayEvent names is cancelled if it is pending.
AttackerStop ==
  \E e \in events :
    /\ IsNextEvent(e) /\ e.kind = "AttackerStop"
    /\ now' = e.ts
    /\ attackerSocket' = IF attackerSocket = "none" THEN "none" ELSE "closed"
    /\ events' = {f \in events \ {e} : ~(f.kind = "ReplayOnce" /\ f.uid = m_replayEvent)}
    /\ UNCHANGED <<nextUid, stopped, nSensors, enableAttacker>>
    /\ UNCHANGED <<m_payload, m_replayCount, m_remaining, m_gap, m_replayEvent>>
    /\ UNCHANGED <<senderVars, rootVars, histVars, codec, logWarn, trace>>

-----------------------------------------------------------------------------
(* DaoRootReceiverApp on the event queue *)

RootStart ==
  \E e \in events :
    /\ IsNextEvent(e) /\ e.kind = "RootStart"
    /\ now' = e.ts
    /\ events' = events \ {e}
    /\ rootSocket' = "bound"
    /\ UNCHANGED <<nextUid, stopped, nSensors, enableAttacker, m_thresh>>
    /\ UNCHANGED <<metricVars, freshVars, senderVars, attackerVars, histVars>>
    /\ UNCHANGED <<codec, logWarn, trace>>

\* A message reaches the root's port: the receive callback runs on the bound socket.
RootRecv ==
  \E e \in events :
    /\ IsNextEvent(e) /\ e.kind = "RootRecv"
    /\ rootSocket = "bound"
    /\ now' = e.ts
    /\ events' = events \ {e}
    /\ HandleRead(e.from, e.data, e.origin, e.ts)
    /\ UNCHANGED <<nextUid, stopped, nSensors, enableAttacker>>
    /\ UNCHANGED <<senderVars, attackerVars>>

\* Simulator::Stop: Run() returns, the events left never run.
SimStop ==
  \E e \in events :
    /\ IsNextEvent(e) /\ e.kind = "SimStop"
    /\ now' = e.ts
    /\ events' = events \ {e}
    /\ stopped' = TRUE
    /\ UNCHANGED <<nextUid, nSensors, enableAttacker>>
    /\ UNCHANGED <<senderVars, attackerVars, rootVars, histVars, codec, logWarn, trace>>

-----------------------------------------------------------------------------
(* The default run with the attacker: ./ns3 run scratch/dao-replay-mitigation *)

InitAttacked == MainInit(DefaultNSensors, TRUE)

NextAttacked ==
  \/ SenderStart
  \/ SendDao
  \/ AttackerStart
  \/ Capture
  \/ ReplayOnce
  \/ RootStart
  \/ RootRecv
  \/ SimStop

SpecAttacked == InitAttacked /\ [][NextAttacked]_vars

(* The run without the attacker, for 1..MaxSensors sensors: --enableAttacker=false *)

MaxSensors == 3

InitQuiet == \E n \in 1..MaxSensors : MainInit(n, FALSE)

NextQuiet ==
  \/ SenderStart
  \/ SendDao
  \/ Capture
  \/ RootStart
  \/ RootRecv
  \/ SimStop

SpecQuiet == InitQuiet /\ [][NextQuiet]_vars

-----------------------------------------------------------------------------
(* One sensor with its mirror, the attacker and the root, for the values Setup
   and SetStopTime can be given: any replay count, applications stopping
   before the end of the run, and a network that may bring one more message
   to the attacker's port. *)

MaxReplay == 2
ReplayCounts == 0..MaxReplay

\* the end of the run, after the sensor's second emission is due
RunLengths == {14 * TicksPerSecond}
\* the sensor stops between its first and second emission, or with the run
SenderStopInputs == {3900} \cup RunLengths
\* the attacker stops at the instant of a replay, between replays, or with the run
AttackerStopInputs == {3050, 3855} \cup RunLengths

\* one datagram from the network, empty or not, early or late in the second
\* in which the sensor first emits; or none
NetworkData == {<<>>, <<"D", "A", "O", ":", "9", ":", "9", ":", "9">>}
NetworkTimes == {3010, 3800}
NetworkInputs ==
  {{}} \cup {{Delivery(t, 8, "MirrorRecv", AttackerNode, AttackerNode, data, "network")} :
               t \in NetworkTimes, data \in NetworkData}

InitApps ==
  \E count \in ReplayCounts, simTime \in RunLengths, senderStop \in SenderStopInputs,
     attackerStop \in AttackerStopInputs, network \in NetworkInputs :
    SetupInit(1, TRUE, count, simTime, senderStop, attackerStop, network)

NextApps ==
  \/ SenderStart
  \/ SendDao
  \/ SenderStop
  \/ AttackerStart
  \/ Capture
  \/ ReplayOnce
  \/ AttackerStop
  \/ RootStart
  \/ RootRecv
  \/ SimStop

SpecApps == InitApps /\ [][NextApps]_vars

-----------------------------------------------------------------------------
(* Properties *)

\* The payload the last message decodes to, and its origin time: the seconds
\* field and the nanoseconds field combined into one timestamp.
LastPayload == DeserializeDao(last.data).p
OriginTime(p) == p.tsSeconds * TicksPerSecond + p.tsNano

\* The verdict of the specification's decision procedure, steps 1 to 5 in order.
Procedure(had, lastSeq, lastOrig, lastArrival, seq, originTime, arrivalTime, threshold) ==
  IF ~had THEN TRUE
  ELSE IF seq < lastSeq THEN FALSE
  ELSE IF seq = lastSeq /\ originTime = lastOrig THEN FALSE
  ELSE IF seq = lastSeq /\ originTime # lastOrig
            /\ arrivalTime - lastArrival < threshold THEN FALSE
  ELSE IF originTime < lastOrig THEN FALSE
  ELSE TRUE

\* The identity `id` has exactly this freshness state.
StateIs(id, seq, orig, arrival) ==
  /\ id \in DOMAIN m_lastSeq /\ m_lastSeq[id] = seq
  /\ id \in DOMAIN m_lastOrig /\ m_lastOrig[id] = orig
  /\ id \in DOMAIN m_lastArrival /\ m_lastArrival[id] = arrival

\* C1: whatever the identity's freshness state (none, or any last accepted
\* sequence, origin time and arrival time), the payload and the arrival time,
\* CheckFresh gives the verdict of the 5-step decision procedure, and leaves the
\* state the procedure leaves: the payload's sequence and origin time and the
\* arrival time after an accept, the state as it was after a reject.
C1_DecisionProcedure ==
  last.ok =>
    LET verdict == Procedure(last.had, last.preSeq, last.preOrig, last.preArrival,
                             LastPayload.seq, OriginTime(LastPayload), last.at, m_thresh)
    IN /\ last.accept = verdict
       /\ IF verdict
            THEN StateIs(last.from, LastPayload.seq, OriginTime(LastPayload), last.at)
            ELSE StateIs(last.from, last.preSeq, last.preOrig, last.preArrival)

\* a payload passed every rejection of the procedure against an existing state
C1_Witness ==
  /\ last.ok /\ last.had /\ last.accept
  /\ last.seq > last.preSeq /\ last.origTs > last.preOrig
  /\ m_rejectedDaos > 0

\* C2: a payload whose sequence and origin time were accepted before for the
\* same identity is rejected, at any later arrival time and whatever arrived in
\* between: no <<sequence, origin time>> is accepted twice for one identity.
C2_NoPairAcceptedTwice ==
  (last.ok /\ last.replay) => ~last.accept

\* the copy comes after another accepted payload and outside the burst window
C2_Witness ==
  /\ last.ok /\ last.replay /\ ~last.accept
  /\ m_acceptedDaos = 2 /\ arrivals = 3
  /\ last.at - last.preArrival >= m_thresh

\* C3: the first decodable payload from an identity without freshness state is
\* accepted whatever its sequence, origin time and arrival time, and creates the
\* identity's state with exactly those three values.
C3_FirstContact ==
  (last.ok /\ ~last.had) =>
    /\ last.accept
    /\ StateIs(last.from, LastPayload.seq, OriginTime(LastPayload), last.at)

\* a first contact after the other identity's, with a nanoseconds field in use
C3_Witness ==
  /\ last.ok /\ ~last.had /\ last.accept
  /\ m_totalDaos >= 2
  /\ LastPayload.tsNano > 0

\* C4: a payload whose sequence is below the identity's last accepted sequence
\* is rejected, whatever its origin time and arrival time.
C4_OldSequenceRejected ==
  (last.ok /\ last.had /\ LastPayload.seq < last.preSeq) => ~last.accept

\* an old sequence with a newer origin time, outside the burst window
C4_Witness ==
  /\ last.ok /\ last.had /\ LastPayload.seq < last.preSeq
  /\ OriginTime(LastPayload) > last.preOrig
  /\ last.at - last.preArrival >= m_thresh
  /\ ~last.accept

\* C5 as claimed: with the last accepted payload of sequence s accepted at t0, a
\* payload of sequence s and a different origin time is rejected when it arrives
\* less than the threshold after t0, and accepted when it arrives at least the
\* threshold after t0.
C5_AsClaimed ==
  (last.ok /\ last.had /\ LastPayload.seq = last.preSeq
     /\ OriginTime(LastPayload) # last.preOrig) =>
    (last.accept <=> last.at - last.preArrival >= m_thresh)

\* C5, amended: such a payload is rejected when it arrives less than the
\* threshold after t0; it is accepted when it arrives at least the threshold
\* after t0 and its origin time is later than the last accepted one.
C5_BurstWindow ==
  (last.ok /\ last.had /\ LastPayload.seq = last.preSeq
     /\ OriginTime(LastPayload) # last.preOrig) =>
    /\ last.at - last.preArrival < m_thresh => ~last.accept
    /\ (last.at - last.preArrival >= m_thresh /\ OriginTime(LastPayload) > last.preOrig)
         => last.accept

\* accepted at t0, rejected at t0 + 0.1 s, accepted at t0 + 0.3 s
C5_Witness ==
  /\ last.ok /\ last.had /\ LastPayload.seq = last.preSeq
  /\ OriginTime(LastPayload) > last.preOrig
  /\ last.at - last.preArrival = DefaultThreshold + DefaultThreshold \div 2
  /\ last.accept
  /\ arrivals = 3 /\ m_rejectedDaos = 1
  /\ m_interArrivals[last.from] = <<DefaultThreshold \div 2, DefaultThreshold>>

\* C6: the stored last accepted sequence and last accepted origin time of an
\* identity never decrease from one state to the next.
C6_Monotonic ==
  [][\A id \in DOMAIN m_lastSeq :
       /\ id \in DOMAIN m_lastSeq' /\ m_lastSeq'[id] >= m_lastSeq[id]
       /\ id \in DOMAIN m_lastOrig' /\ m_lastOrig'[id] >= m_lastOrig[id]]_vars

\* an accept over an existing state that raised the sequence and kept the origin time
C6_Witness ==
  /\ last.ok /\ last.had /\ last.accept
  /\ m_lastSeq[last.from] > last.preSeq
  /\ m_lastOrig[last.from] = last.preOrig

\* C7: between receive callbacks, after any arrivals (decodable or malformed,
\* accepted or rejected), totalSeen = totalAccepted + totalRejected.
C7_CountersAddUp ==
  m_totalDaos = m_acceptedDaos + m_rejectedDaos

\* an accepted, a rejected and a malformed message have arrived
C7_Witness ==
  /\ arrivals = 3 /\ m_totalDaos = 2
  /\ m_acceptedDaos = 1 /\ m_rejectedDaos = 1

\* C8: in the default run with the attacker, every replay that reaches the root
\* is rejected and every payload of a sensor that reaches it is accepted; at
\* teardown totalRejected = 100 and totalAccepted = totalSeen - 100.
C8_AttackedRun ==
  /\ last.origin = "attacker" => (last.ok /\ ~last.accept)
  /\ last.origin = "sender" => (last.ok /\ last.accept)
  /\ stopped =>
       /\ m_rejectedDaos = DefaultReplayCount
       /\ m_acceptedDaos = m_totalDaos - DefaultReplayCount

\* C9: without the attacker, for any number of sensors whose payloads arrive in
\* the order they were sent, every received payload is accepted: in every state
\* totalRejected = 0 and totalAccepted = totalSeen.
C9_QuietRun ==
  /\ m_rejectedDaos = 0
  /\ m_acceptedDaos = m_totalDaos

\* teardown of a run of several sensors, each heard at least twice
C9_Witness ==
  /\ stopped /\ ~enableAttacker
  /\ nSensors > 1
  /\ DOMAIN m_interArrivals = Sensors
  /\ m_acceptedDaos >= 2 * nSensors

\* C10: the burst check as the README words it: a payload arriving less than the
\* threshold after the identity's last accepted payload is rejected, whatever
\* its sequence and origin time.
C10_ReadmeBurst ==
  (last.ok /\ last.had /\ last.at - last.preArrival < m_thresh) => ~last.accept

\* C11: the timestamp check as the README words it: once an identity has an
\* accepted payload, a payload of that identity whose origin timestamp is
\* identical to or older than the last accepted one is rejected, whatever its
\* sequence number and arrival time.
C11_ReadmeTimestamp ==
  (last.ok /\ last.had /\ OriginTime(LastPayload) <= last.preOrig) => ~last.accept

\* C13: a message that fails decoding is dropped: the three counters, the
\* previous-arrival record, the inter-arrival samples and the freshness state of
\* every identity are what they were before it arrived.
C13_MalformedDropped ==
  [][(arrivals' = arrivals + 1 /\ ~DeserializeDao(last'.data).ok)
       => UNCHANGED <<m_totalDaos, m_acceptedDaos, m_rejectedDaos,
                      m_prevArrival, m_interArrivals,
                      m_lastSeq, m_lastOrig, m_lastArrival>>]_vars

\* a malformed message from an identity the root already keeps state for
C13_Witness ==
  /\ ~DeserializeDao(last.data).ok
  /\ last.from \in DOMAIN m_lastSeq /\ last.from \in DOMAIN m_prevArrival
  /\ m_totalDaos = arrivals - 1 /\ m_totalDaos > 0

\* C19: an evaluation that rejects leaves the three freshness maps and their
\* set of identities unchanged; one that accepts changes at most the entry of
\* the evaluated identity; no entry is ever deleted.
C19_Frame ==
  [][/\ DOMAIN m_lastSeq \subseteq DOMAIN m_lastSeq'
     /\ DOMAIN m_lastOrig \subseteq DOMAIN m_lastOrig'
     /\ DOMAIN m_lastArrival \subseteq DOMAIN m_lastArrival'
     /\ m_rejectedDaos' # m_rejectedDaos
          => UNCHANGED <<m_lastSeq, m_lastOrig, m_lastArrival>>
     /\ m_acceptedDaos' # m_acceptedDaos
          => \A id \in DOMAIN m_lastSeq' \ {last'.from} :
               /\ id \in DOMAIN m_lastSeq
               /\ m_lastSeq'[id] = m_lastSeq[id]
               /\ m_lastOrig'[id] = m_lastOrig[id]
               /\ m_lastArrival'[id] = m_lastArrival[id]]_vars

\* a rejection and an acceptance, each with the other identity's entry present
C19_Witness ==
  /\ Cardinality(DOMAIN m_lastSeq) = 2
  /\ m_rejectedDaos = 1 /\ m_acceptedDaos = 2
  /\ last.ok /\ ~last.accept

\* The inter-arrival samples the arrival times ts of one identity's decodable
\* payloads should give.
SamplesOf(ts) == [k \in 1..(Len(ts) - 1) |-> ts[k + 1] - ts[k]]

\* C20: per identity the inter-arrival samples are the differences of the
\* successive arrival times of its decodable payloads, accepted or rejected
\* (one fewer than its payloads, none if it has fewer than two), and the total
\* number of samples is totalSeen minus the number of identities seen.
C20_InterArrivals ==
  /\ \A id \in DOMAIN m_interArrivals :
       /\ id \in DOMAIN trace.decodedAt
       /\ m_interArrivals[id] = SamplesOf(trace.decodedAt[id])
       /\ Len(m_interArrivals[id]) = Len(trace.decodedAt[id]) - 1
  /\ \A id \in DOMAIN trace.decodedAt \ DOMAIN m_interArrivals :
       Len(trace.decodedAt[id]) = 1
  /\ Cardinality({<<id, k>> \in (DOMAIN m_interArrivals) \X (1..m_totalDaos) :
                    k <= Len(m_interArrivals[id])})
       = m_totalDaos - Cardinality(DOMAIN trace.decodedAt)

\* an identity heard three times, the second time rejected, another heard once
C20_Witness ==
  /\ \E id \in DOMAIN m_interArrivals :
       /\ Len(m_interArrivals[id]) = 2
       /\ m_interArrivals[id][1] # m_interArrivals[id][2]
  /\ m_rejectedDaos = 1 /\ m_acceptedDaos = 2

\* C12: for every valid payload p, DeserializeDao(SerializeDao(p)) succeeds and
\* gives back p in its three fields.
C12_RoundTrip ==
  codec.stage = "decoded" => (codec.ok /\ codec.out = codec.p)

\* a ten-digit sequence number, a field ending in zero and the field 0
C12_Witness ==
  /\ codec.stage = "decoded" /\ codec.ok
  /\ codec.p = [seq |-> 2147483647, tsSeconds |-> 10, tsNano |-> 0]
  /\ Len(codec.s) = 19

\* What a step puts on the wire: the messages sensor i sends to the root, and
\* the messages sent to the mirror port.
SentToRoot(i) ==
  {e \in events' \ events : e.kind = "RootRecv" /\ e.origin = "sender" /\ e.from = i}
SentToMirror == {e \in events' \ events : e.kind = "MirrorRecv"}

\* C17: the k-th emission of a sensor (k = 0, 1, ...) carries its starting
\* sequence plus k; each emission sends exactly one payload to the root and,
\* if the sensor has a mirror, exactly one more to the mirror with the same
\* sequence and origin timestamp, and none to the mirror otherwise.
C17_Emission ==
  [][\A i \in Sensors :
       trace'.emitted[i] # trace.emitted[i] =>
         /\ Cardinality(SentToRoot(i)) = 1
         /\ \A e \in SentToRoot(i) :
              /\ DeserializeDao(e.data).ok
              /\ DeserializeDao(e.data).p.seq = FirstSeq + i * SeqStride + trace.emitted[i]
              /\ \A m \in SentToMirror :
                   /\ DeserializeDao(m.data).ok
                   /\ DeserializeDao(m.data).p = DeserializeDao(e.data).p
         /\ Cardinality(SentToMirror) = IF HasMirror(i) THEN 1 ELSE 0]_vars

\* three emissions of the sensor with the mirror, two of a sensor without
C17_Witness ==
  /\ nSensors > 1
  /\ trace.emitted[0] = 3 /\ m_seq[0] = FirstSeq + 3
  /\ trace.emitted[1] = 2 /\ m_seq[1] = FirstSeq + SeqStride + 2

\* C18: the origin time the root reconstructs from an emitted payload is the
\* clock reading at its emission.
C18_OriginIsEmissionTime ==
  [][\A i \in Sensors : \A e \in SentToRoot(i) :
       OrigTsOf(DeserializeDao(e.data).p) = now']_vars

\* The replays a step hands to the network, and the replay events it schedules.
ReplaysSent == {e \in events' \ events : e.kind = "RootRecv" /\ e.origin = "attacker"}
ReplaysScheduled == {e \in events' \ events : e.kind = "ReplayOnce"}

\* C14: the attacker's stored payload is set once, to the first message it
\* receives at its port; a later message changes neither the stored payload nor
\* the remaining counter nor the replay schedule; every replay sent is that
\* first message, byte for byte.
C14_CaptureOnce ==
  [][/\ trace'.heard >= 1 => m_payload' = trace'.first
     /\ (trace.heard >= 1 /\ trace'.heard > trace.heard)
          => (UNCHANGED <<m_payload, m_remaining, m_replayEvent>> /\ ReplaysScheduled = {})
     /\ \A e \in ReplaysSent : e.data = trace.first]_vars

\* C15 (its part about every state): the replays sent never exceed replayCount,
\* and from the capture on they number replayCount minus the remaining counter.
C15_ReplayBudget ==
  /\ trace.replayed <= m_replayCount
  /\ trace.heard >= 1 => trace.replayed = m_replayCount - m_remaining

\* C16: a stopped sensor sends nothing more to the root or the mirror and a
\* stopped attacker sends no replay; the emission or replay pending when the
\* application stops is cancelled, so none is left to fire.
C16_Deactivated ==
  [][/\ \A i \in Sensors :
          /\ senderSocket[i] = "closed"
               => (SentToRoot(i) = {} /\ SentToMirror = {}
                   /\ trace'.emitted[i] = trace.emitted[i])
          /\ senderSocket'[i] = "closed"
               => {f \in events' : f.kind = "SendDao" /\ f.node = i} = {}
     /\ attackerSocket = "closed" => (ReplaysSent = {} /\ trace'.replayed = trace.replayed)
     /\ attackerSocket' = "closed" => {f \in events' : f.kind = "ReplayOnce"} = {}]_vars

=============================================================================
